---- MODULE Spec2Model ----
(***************************************************************************)
(* Model of the status container of src/components/status.rs: the fixed    *)
(* slot array `Statuses`, the built-in MountedStatus and PoisonStatus and  *)
(* the operations that add, remove, update and query the stored effects.   *)
(*                                                                         *)
(* Times are whole seconds (ElapsedTime holds an f32 of seconds; the code  *)
(* only adds 1.0 to it and compares it).  An empty slot (Option::None) is  *)
(* the record None; an occupied slot holds the record of the effect that   *)
(* the Arc<Mutex<Box<dyn Status>>> handle leads to.                        *)
(***************************************************************************)
EXTENDS Integers, Sequences, FiniteSets, TLC

\* ------------------------------------------------------------------ bounds

\* secondary slots the full specification fills with effects of any kind
MaxSecondary == 2
\* latest simulation time of an update, latest expiry an effect is given
MaxTime == 3
\* entities that cast poison are 1..MaxCaster
MaxCaster == 2
MaxShared == 2
MaxChars == 3

\* --------------------------------------------------------------- constants

STATUS_ARRAY_SIZE == 32
\* #[derive(EnumCount)] on MainStatuses
MAINSTATUSES_COUNT == 3
\* ordinals of enum MainStatuses
Mounted == 0
Stun == 1
Poison == 2
\* AttackType::Poison(30)
PoisonDamage == 30
MountedSpeed == 200
BuffSpeed == 25
Threads == 1..2
Idle == [pc |-> "idle"]
Chars == 1..MaxChars

Slots == 0..(STATUS_ARRAY_SIZE - 1)
Times == 0..MaxTime
Casters == 1..MaxCaster
\* the character that owns the modelled Statuses
SelfChar == 0
StatusType == {"Supportive", "Harmful"}

\* ------------------------------------------------------------ ElapsedTime

is_earlier_than(self, system_time) == self <= system_time

is_later_than(self, other) == self > other

add_seconds(self, seconds) == self + seconds

max(self, other) == IF self >= other THEN self ELSE other

\* a fraction num/den, kept as the pair the division is taken of
percentage_between(self, init, limit) == <<self - init, limit - init>>

\* f32 equality of two such fractions (denominators are positive)
SamePercent(p, q) == p[1] * q[2] = q[1] * p[2]

\* ---------------------------------------------------------------- effects

None == [kind |-> "None"]

MountedStatus == [kind |-> "Mounted"]

PoisonStatus(caster, started, until, next_damage_at) ==
    [kind |-> "Poison", poison_caster_entity_id |-> caster, started |-> started,
     until |-> until, next_damage_at |-> next_damage_at]

\* an effect defined outside status.rs: a timed buff or debuff
SecondaryStatus(t, started, until) ==
    [kind |-> "Secondary", typ |-> t, started |-> started, until |-> until]

is_some(it) == it.kind # "None"

KeepIt == "KeepIt"
RemoveIt == "RemoveIt"

AttackComponent(src, dst) ==
    [src_entity |-> src, dst_entity |-> dst, typ |-> <<"Poison", PoisonDamage>>]

\* each per-effect operation yields the effect after the call, what it
\* returned and the attacks vector of the world context after the call

MountedStatus_typ == "Supportive"

MountedStatus_update(self, self_char_id, now, attacks) ==
    [status |-> self, result |-> KeepIt, attacks |-> attacks]

MountedStatus_get_status_completion_percent(self, now) == [some |-> FALSE]

PoisonStatus_typ == "Harmful"

\* mutant: one damage event for every second that elapsed since next_damage_at
RECURSIVE poison_catch_up(_, _, _, _)
poison_catch_up(self, self_char_id, now, attacks) ==
    IF is_earlier_than(self.next_damage_at, now)
    THEN poison_catch_up(
             [self EXCEPT !.next_damage_at = add_seconds(@, 1)],
             self_char_id, now,
             Append(attacks, AttackComponent(self.poison_caster_entity_id,
                                             self_char_id)))
    ELSE [status |-> self, result |-> KeepIt, attacks |-> attacks]

PoisonStatus_update_catches_up(self, self_char_id, now, attacks) ==
    IF is_earlier_than(self.until, now)
    THEN [status |-> self, result |-> RemoveIt, attacks |-> attacks]
    ELSE poison_catch_up(self, self_char_id, now, attacks)

\* mutant: the damage is tested before the expiry
PoisonStatus_update_ticks_first(self, self_char_id, now, attacks) ==
    LET due == is_earlier_than(self.next_damage_at, now)
    IN  [status |-> IF due
                    THEN [self EXCEPT !.next_damage_at = add_seconds(now, 1)]
                    ELSE self,
         result |-> IF is_earlier_than(self.until, now)
                    THEN RemoveIt ELSE KeepIt,
         attacks |-> IF due
                     THEN Append(attacks,
                                 AttackComponent(self.poison_caster_entity_id,
                                                 self_char_id))
                     ELSE attacks]

PoisonStatus_update(self, self_char_id, now, attacks) ==
    IF is_earlier_than(self.until, now)
    THEN [status |-> self, result |-> RemoveIt, attacks |-> attacks]
    ELSE IF is_earlier_than(self.next_damage_at, now)
         THEN [status |-> [self EXCEPT !.next_damage_at = add_seconds(now, 1)],
               result |-> KeepIt,
               attacks |-> Append(attacks,
                                  AttackComponent(self.poison_caster_entity_id,
                                                  self_char_id))]
         ELSE [status |-> self, result |-> KeepIt, attacks |-> attacks]

PoisonStatus_get_status_completion_percent(self, now) ==
    [some |-> TRUE, ends_at |-> self.until,
     percent |-> percentage_between(now, self.started, self.until)]

SecondaryStatus_update(self, self_char_id, now, attacks) ==
    IF is_earlier_than(self.until, now)
    THEN [status |-> self, result |-> RemoveIt, attacks |-> attacks]
    ELSE [status |-> self, result |-> KeepIt, attacks |-> attacks]

SecondaryStatus_get_status_completion_percent(self, now) ==
    [some |-> TRUE, ends_at |-> self.until,
     percent |-> percentage_between(now, self.started, self.until)]

MountedStatus_dupl(self) == MountedStatus

\* Box::new(self.clone()): a new box holding a field-by-field copy
PoisonStatus_dupl(self) ==
    PoisonStatus(self.poison_caster_entity_id, self.started, self.until,
                 self.next_damage_at)

SecondaryStatus_dupl(self) ==
    SecondaryStatus(self.typ, self.started, self.until)

\* CharAttributeModifierCollector: the modifiers in the order they were pushed
CharAttributeModifierCollector_new == <<>>

clear(modifiers) == <<>>

IncreaseByPercentage(percentage) ==
    [kind |-> "IncreaseByPercentage", percentage |-> percentage]

change_walking_speed(modifiers, modifier, started, until) ==
    Append(modifiers, [attr |-> "walking_speed", modifier |-> modifier,
                       started |-> started, until |-> until])

MountedStatus_calc_attribs(modifiers) ==
    change_walking_speed(modifiers, IncreaseByPercentage(MountedSpeed), 0, 0)

PoisonStatus_calc_attribs(modifiers) == modifiers

\* a buff speeds the character up while it lasts, a debuff pushes no modifier
SecondaryStatus_calc_attribs(self, modifiers) ==
    IF self.typ = "Supportive"
    THEN change_walking_speed(modifiers, IncreaseByPercentage(BuffSpeed),
                              self.started, self.until)
    ELSE modifiers

\* a colour channel is a fraction <<num, den>>; a colour is four channels
One == <<1, 1>>
Half == <<1, 2>>
times(a, b) == <<a[1] * b[1], a[2] * b[2]>>

MountedStatus_get_render_color == <<One, One, One, One>>

PoisonStatus_get_render_color == <<Half, One, Half, One>>

\* the effects defined outside status.rs are of two types: a buff
\* (Supportive) that tints the green channel and a debuff (Harmful) that
\* tints like poison
SecondaryStatus_get_render_color(self) ==
    IF self.typ = "Supportive"
    THEN <<One, Half, One, One>>
    ELSE <<Half, One, Half, One>>

\* dynamic dispatch through Box<dyn Status>
typ(status) ==
    CASE status.kind = "Mounted" -> MountedStatus_typ
      [] status.kind = "Poison" -> PoisonStatus_typ
      [] status.kind = "Secondary" -> status.typ

Status_update(status, self_char_id, now, attacks) ==
    CASE status.kind = "Mounted" ->
             MountedStatus_update(status, self_char_id, now, attacks)
      [] status.kind = "Poison" ->
             PoisonStatus_update(status, self_char_id, now, attacks)
      [] status.kind = "Secondary" ->
             SecondaryStatus_update(status, self_char_id, now, attacks)

get_status_completion_percent(status, now) ==
    CASE status.kind = "Mounted" ->
             MountedStatus_get_status_completion_percent(status, now)
      [] status.kind = "Poison" ->
             PoisonStatus_get_status_completion_percent(status, now)
      [] status.kind = "Secondary" ->
             SecondaryStatus_get_status_completion_percent(status, now)

dupl(status) ==
    CASE status.kind = "Mounted" -> MountedStatus_dupl(status)
      [] status.kind = "Poison" -> PoisonStatus_dupl(status)
      [] status.kind = "Secondary" -> SecondaryStatus_dupl(status)

calc_attribs(status, modifiers) ==
    CASE status.kind = "Mounted" -> MountedStatus_calc_attribs(modifiers)
      [] status.kind = "Poison" -> PoisonStatus_calc_attribs(modifiers)
      [] status.kind = "Secondary" ->
             SecondaryStatus_calc_attribs(status, modifiers)

get_render_color(status) ==
    CASE status.kind = "Mounted" -> MountedStatus_get_render_color
      [] status.kind = "Poison" -> PoisonStatus_get_render_color
      [] status.kind = "Secondary" -> SecondaryStatus_get_render_color(status)

\* Any::type_id of the effect behind the trait object
type_id(status) ==
    CASE status.kind = "Mounted" -> "MountedStatus"
      [] status.kind = "Poison" -> "PoisonStatus"
      [] status.kind = "Secondary" ->
             IF status.typ = "Supportive" THEN "BuffStatus" ELSE "DebuffStatus"

\* ------------------------------------------------------------------ state

VARIABLES
    statuses,          \* Statuses.statuses: slot -> None or an effect
    first_free_index,  \* Statuses.first_free_index, the high-water mark
    time,              \* system_vars.time as of the latest update
    attacks,           \* system_vars.attacks pushed by the latest update
    last,              \* the latest call: its name, arguments and result
    net_adds,          \* history: adds since the latest remove_all, kept by
                       \* the add/remove_all sequences of SpecSequence only
    cached_modifier_collector,  \* Statuses.cached_modifier_collector
    heap,              \* handle -> the effect behind an Arc<Mutex<Box<..>>>
    holder,            \* handle -> the thread that holds its Mutex, or 0
    payloads,          \* the ApplyStatusComponentPayload values alive
    threads,           \* thread -> the Statuses operation it runs
    char_statuses      \* character -> its Statuses

\* the state outside the one Statuses the container operations act on
sideVars == <<heap, holder, payloads, threads, char_statuses>>

vars == <<statuses, first_free_index, time, attacks, last, net_adds,
          cached_modifier_collector, sideVars>>

\* slots.iter().take(first_free_index)
take(n) == {i \in Slots : i < n}

\* --------------------------------------------------- Statuses: operations

new == [statuses |-> [i \in Slots |-> None],
        first_free_index |-> MAINSTATUSES_COUNT]

\* mutant: the capacity test is off by one
add_off_by_one(sts, ffi, status) ==
    IF ffi > STATUS_ARRAY_SIZE
    THEN [statuses |-> sts, first_free_index |-> ffi,
          logged |-> TRUE, ret |-> "unit"]
    ELSE IF ffi \notin Slots
         THEN [statuses |-> sts, first_free_index |-> ffi,
               logged |-> FALSE, ret |-> "panic"]
         ELSE [statuses |-> [sts EXCEPT ![ffi] = status],
               first_free_index |-> ffi + 1,
               logged |-> FALSE, ret |-> "unit"]

\* mutant: add fills the lowest empty secondary slot
add_first_fit(sts, ffi, status) ==
    LET holes == {i \in Slots : i >= MAINSTATUSES_COUNT /\ ~is_some(sts[i])}
    IN  IF holes = {}
        THEN [statuses |-> sts, first_free_index |-> ffi,
              logged |-> TRUE, ret |-> "unit"]
        ELSE LET at == CHOOSE i \in holes : \A j \in holes : i <= j
             IN  [statuses |-> [sts EXCEPT ![at] = status],
                  first_free_index |-> IF at >= ffi THEN at + 1 ELSE ffi,
                  logged |-> FALSE, ret |-> "unit"]

add(sts, ffi, status) ==
    IF ffi >= STATUS_ARRAY_SIZE
    THEN [statuses |-> sts, first_free_index |-> ffi,
          logged |-> TRUE, ret |-> "unit"]
    ELSE IF ffi \notin Slots
         THEN \* an index out of bounds panics
              [statuses |-> sts, first_free_index |-> ffi,
               logged |-> FALSE, ret |-> "panic"]
         ELSE [statuses |-> [sts EXCEPT ![ffi] = status],
               first_free_index |-> ffi + 1,
               logged |-> FALSE, ret |-> "unit"]

\* mutant: the mark is reset but the slots are not cleared
remove_all_resets_mark_only(sts, ffi) ==
    [statuses |-> sts, first_free_index |-> MAINSTATUSES_COUNT]

\* mutant: only the secondary region is cleared
remove_all_spares_main(sts, ffi) ==
    [statuses |-> [i \in Slots |->
                      IF i \in take(ffi) /\ i >= MAINSTATUSES_COUNT
                      THEN None ELSE sts[i]],
     first_free_index |-> MAINSTATUSES_COUNT]

remove_all(sts, ffi) ==
    [statuses |-> [i \in Slots |-> IF i \in take(ffi) THEN None ELSE sts[i]],
     first_free_index |-> MAINSTATUSES_COUNT]

remove(sts, ffi, status_type) ==
    [i \in Slots |->
        IF i \in take(ffi) /\ is_some(sts[i]) /\ typ(sts[i]) = status_type
        THEN None
        ELSE sts[i]]

remove_main_status(sts, status) == [sts EXCEPT ![status] = None]

is_mounted(sts) == is_some(sts[Mounted])

is_stunned(sts) == is_some(sts[Stun])

\* mutant: the slot is set whatever it held
switch_mounted_always_mounts(sts) == [sts EXCEPT ![Mounted] = MountedStatus]

switch_mounted(sts) ==
    LET value == IF ~is_mounted(sts) THEN MountedStatus ELSE None
    IN  [sts EXCEPT ![Mounted] = value]

\* hack_cast::<PoisonStatus>(boxx) reinterprets the memory of the Box (the
\* pointer pair of the trait object) as a PoisonStatus: the fields read
\* through it are whatever those bytes hold, so any value may come out,
\* the stored expiry among them
hack_cast(boxx) == {[until |-> u] : u \in 0..(MaxTime + 1)}

\* `cast` is the view hack_cast returned for the stored poison
add_poison(sts, poison_caster_entity_id, started, until, cast) ==
    LET new_until == IF is_some(sts[Poison])
                     THEN max(cast.until, until)
                     ELSE until
    IN  [sts EXCEPT ![Poison] =
            PoisonStatus(poison_caster_entity_id, started, new_until,
                         add_seconds(started, 1))]

\* the for loop of Statuses::update from slot i on
RECURSIVE update_pass(_, _, _, _, _)
update_pass(acc, i, limit, self_char_id, now) ==
    IF i >= limit \/ i \notin Slots
    THEN acc
    ELSE IF ~is_some(acc.statuses[i])
         THEN update_pass(acc, i + 1, limit, self_char_id, now)
         ELSE LET r == Status_update(acc.statuses[i], self_char_id, now,
                                     acc.attacks)
                  removed == r.result = RemoveIt
              IN  update_pass(
                      [statuses |-> [acc.statuses EXCEPT ![i] =
                                        IF removed THEN None ELSE r.status],
                       attacks |-> r.attacks,
                       changed |-> acc.changed \/ removed,
                       visited |-> Append(acc.visited, i),
                       removed |-> IF removed THEN acc.removed \cup {i}
                                   ELSE acc.removed],
                      i + 1, limit, self_char_id, now)

\* mutant: the mark is lowered through the main region too
RECURSIVE shrink_through_main(_, _)
shrink_through_main(sts, ffi) ==
    IF ffi > 0 /\ ~is_some(sts[ffi - 1])
    THEN shrink_through_main(sts, ffi - 1)
    ELSE ffi

\* mutant: the mark is lowered by one slot at most
shrink_one_step(sts, ffi) ==
    IF ffi > MAINSTATUSES_COUNT /\ ~is_some(sts[ffi - 1])
    THEN ffi - 1
    ELSE ffi

\* the while loop of Statuses::update
RECURSIVE shrink(_, _)
shrink(sts, ffi) ==
    IF ffi > MAINSTATUSES_COUNT /\ ~is_some(sts[ffi - 1])
    THEN shrink(sts, ffi - 1)
    ELSE ffi

update(sts, ffi, self_char_id, now, atk) ==
    LET pass == update_pass([statuses |-> sts, attacks |-> atk,
                             changed |-> FALSE, visited |-> <<>>,
                             removed |-> {}],
                            0, ffi, self_char_id, now)
    IN  [statuses |-> pass.statuses,
         first_free_index |-> shrink(pass.statuses, ffi),
         attacks |-> pass.attacks,
         ret |-> pass.changed,
         visited |-> pass.visited,
         removed |-> pass.removed]

\* the for loop of calc_largest_remaining_status_time_percent from slot i on
RECURSIVE largest_pass(_, _, _, _, _)
largest_pass(ret, sts, i, limit, now) ==
    IF i >= limit \/ i \notin Slots
    THEN ret
    ELSE IF ~is_some(sts[i])
         THEN largest_pass(ret, sts, i + 1, limit, now)
         ELSE LET rem == get_status_completion_percent(sts[i], now)
                  next == IF rem.some
                          THEN IF ret.some
                               THEN IF is_later_than(ret.ends_at, rem.ends_at)
                                    THEN rem
                                    ELSE ret
                               ELSE rem
                          ELSE ret
              IN  largest_pass(next, sts, i + 1, limit, now)

calc_largest_remaining_status_time_percent(sts, ffi, now) ==
    LET ret == largest_pass([some |-> FALSE], sts, 0, ffi, now)
    IN  IF ret.some THEN [some |-> TRUE, percent |-> ret.percent]
        ELSE [some |-> FALSE]

\* the for loop of calc_attributes from slot i on
RECURSIVE attribs_pass(_, _, _, _)
attribs_pass(modifiers, sts, i, limit) ==
    IF i >= limit \/ i \notin Slots
    THEN modifiers
    ELSE IF ~is_some(sts[i])
         THEN attribs_pass(modifiers, sts, i + 1, limit)
         ELSE attribs_pass(calc_attribs(sts[i], modifiers), sts, i + 1, limit)

\* mutant: the collector is not cleared
calc_attributes_appends(sts, ffi, cached) ==
    attribs_pass(cached, sts, 0, ffi)

calc_attributes(sts, ffi, cached) ==
    attribs_pass(clear(cached), sts, 0, ffi)

\* mutant: the colour of an effect replaces the running colour
RECURSIVE color_pass_overwrites(_, _, _, _)
color_pass_overwrites(ret, sts, i, limit) ==
    IF i >= limit \/ i \notin Slots
    THEN ret
    ELSE IF ~is_some(sts[i])
         THEN color_pass_overwrites(ret, sts, i + 1, limit)
         ELSE color_pass_overwrites(get_render_color(sts[i]), sts, i + 1,
                                    limit)

\* the for loop of calc_render_color from slot i on
RECURSIVE color_pass(_, _, _, _)
color_pass(ret, sts, i, limit) ==
    IF i >= limit \/ i \notin Slots
    THEN ret
    ELSE IF ~is_some(sts[i])
         THEN color_pass(ret, sts, i + 1, limit)
         ELSE LET status_color == get_render_color(sts[i])
              IN  color_pass([c \in 1..4 |-> times(ret[c], status_color[c])],
                             sts, i + 1, limit)

calc_render_color(sts, ffi) ==
    color_pass(<<One, One, One, One>>, sts, 0, ffi)

\* mutant: the type of a rendered effect is not remembered
RECURSIVE render_pass_forgets(_, _, _)
render_pass_forgets(acc, sts, i) ==
    IF i \notin Slots
    THEN acc
    ELSE IF ~is_some(sts[i])
         THEN render_pass_forgets(acc, sts, i + 1)
         ELSE render_pass_forgets(
                  [already_rendered |-> acc.already_rendered,
                   rendered |-> Append(acc.rendered, i)],
                  sts, i + 1)

\* the for loop of Statuses::render from slot i on (every slot of the array,
\* not only those below the mark); `rendered` lists the slots whose effect's
\* render was called
RECURSIVE render_pass(_, _, _)
render_pass(acc, sts, i) ==
    IF i \notin Slots
    THEN acc
    ELSE IF ~is_some(sts[i])
         THEN render_pass(acc, sts, i + 1)
         ELSE IF type_id(sts[i]) \notin acc.already_rendered
              THEN render_pass(
                       [already_rendered |->
                            acc.already_rendered \cup {type_id(sts[i])},
                        rendered |-> Append(acc.rendered, i)],
                       sts, i + 1)
              ELSE render_pass(acc, sts, i + 1)

render(sts) ==
    render_pass([already_rendered |-> {}, rendered |-> <<>>], sts, 0).rendered

\* ApplyStatusComponentPayload: a main status by value, or the handle (an
\* index of `heap`) of a secondary effect; each constructor yields the payload
\* and the heap after the call
from_main_status(m, hp) ==
    [payload |-> [kind |-> "MainStatus", m |-> m], heap |-> hp]

\* Arc::new(Mutex::new(status)) allocates a new handle
from_secondary(status, hp) ==
    [payload |-> [kind |-> "SecondaryStatus", arc |-> Len(hp) + 1],
     heap |-> Append(hp, status)]

\* mutant: the clone of a payload shares the handle (Arc::clone)
clone_shares_arc(self, hp) == [payload |-> self, heap |-> hp]

clone(self, hp) ==
    IF self.kind = "MainStatus"
    THEN from_main_status(self.m, hp)
    ELSE LET boxed_status_clone == dupl(hp[self.arc])
         IN  from_secondary(boxed_status_clone, hp)

\* Mutex::lock on the handle h returns once no thread holds the guard
\* mutant: the effect is reached without its lock
can_lock_unguarded(hl, h) == TRUE

can_lock(hl, h) == hl[h] = 0

lock(hl, h, t) == [hl EXCEPT ![h] = t]

\* mutant: the guard lives on after the call
keep_guard(hl, h) == hl

\* the guard, a temporary of the statement that calls the effect, is dropped
\* at the end of the statement
drop_guard(hl, h) == [hl EXCEPT ![h] = 0]

\* ApplyStatusInArea: the payload is applied to every character the collision
\* test reports inside the shape, but for the excluded entity
\* mutant: the excluded entity is not skipped
apply_status_in_area_to_all(chs, colliding, except, status) ==
    [c \in Chars |->
        IF c \in colliding
        THEN LET r == add(chs[c].statuses, chs[c].first_free_index, status)
             IN  [statuses |-> r.statuses,
                  first_free_index |-> r.first_free_index]
        ELSE chs[c]]

apply_status_in_area(chs, colliding, except, status) ==
    [c \in Chars |->
        IF c \in colliding /\ c # except
        THEN LET r == add(chs[c].statuses, chs[c].first_free_index, status)
             IN  [statuses |-> r.statuses,
                  first_free_index |-> r.first_free_index]
        ELSE chs[c]]

\* ---------------------------------------------------------------- actions

Init ==
    /\ statuses = new.statuses
    /\ first_free_index = new.first_free_index
    /\ time = 0
    /\ attacks = <<>>
    /\ last = [op |-> "new"]
    /\ net_adds = 0
    /\ cached_modifier_collector = CharAttributeModifierCollector_new
    /\ heap = <<>>
    /\ holder = <<>>
    /\ payloads = <<>>
    /\ threads = [t \in Threads |-> Idle]
    /\ char_statuses = [c \in Chars |-> new]

CallAdd(status) ==
    LET r == add(statuses, first_free_index, status)
    IN  /\ statuses' = r.statuses
        /\ first_free_index' = r.first_free_index
        /\ last' = [op |-> "add", status |-> status, ret |-> r.ret,
                    logged |-> r.logged]
        /\ UNCHANGED <<time, attacks, cached_modifier_collector, sideVars>>

Add(status) == CallAdd(status) /\ UNCHANGED net_adds

AddPoison(caster, started, until) ==
    \E cast \in hack_cast(statuses[Poison]) :
        /\ statuses' = add_poison(statuses, caster, started, until, cast)
        /\ last' = [op |-> "add_poison", caster |-> caster,
                    started |-> started, until |-> until]
        /\ UNCHANGED <<first_free_index, time, attacks, net_adds,
                 cached_modifier_collector, sideVars>>

SwitchMounted ==
    /\ statuses' = switch_mounted(statuses)
    /\ last' = [op |-> "switch_mounted"]
    /\ UNCHANGED <<first_free_index, time, attacks, net_adds,
                 cached_modifier_collector, sideVars>>

Remove(status_type) ==
    /\ statuses' = remove(statuses, first_free_index, status_type)
    /\ last' = [op |-> "remove", status_type |-> status_type]
    /\ UNCHANGED <<first_free_index, time, attacks, net_adds,
                 cached_modifier_collector, sideVars>>

RemoveMainStatus(status) ==
    /\ statuses' = remove_main_status(statuses, status)
    /\ last' = [op |-> "remove_main_status", status |-> status]
    /\ UNCHANGED <<first_free_index, time, attacks, net_adds,
                 cached_modifier_collector, sideVars>>

CallRemoveAll ==
    LET r == remove_all(statuses, first_free_index)
    IN  /\ statuses' = r.statuses
        /\ first_free_index' = r.first_free_index
        /\ last' = [op |-> "remove_all",
                    held |-> {i \in Slots : is_some(statuses[i])}]
        /\ UNCHANGED <<time, attacks, cached_modifier_collector, sideVars>>

RemoveAll == CallRemoveAll /\ UNCHANGED net_adds

\* the attacks of the previous frame were consumed before this update
Update(now) ==
    LET r == update(statuses, first_free_index, SelfChar, now, <<>>)
    IN  /\ statuses' = r.statuses
        /\ first_free_index' = r.first_free_index
        /\ time' = now
        /\ attacks' = r.attacks
        /\ last' = [op |-> "update", now |-> now, ret |-> r.ret,
                    visited |-> r.visited, removed |-> r.removed]
        /\ UNCHANGED <<net_adds, cached_modifier_collector, sideVars>>

IsMounted ==
    /\ last' = [op |-> "is_mounted", ret |-> is_mounted(statuses)]
    /\ UNCHANGED <<statuses, first_free_index, time, attacks, net_adds,
                 cached_modifier_collector, sideVars>>

CalcLargestRemaining(now) ==
    /\ last' = [op |-> "calc_largest_remaining_status_time_percent",
                now |-> now,
                ret |-> calc_largest_remaining_status_time_percent(
                            statuses, first_free_index, now)]
    /\ UNCHANGED <<statuses, first_free_index, time, attacks, net_adds,
                 cached_modifier_collector, sideVars>>

CalcAttributes ==
    /\ cached_modifier_collector' =
           calc_attributes(statuses, first_free_index,
                           cached_modifier_collector)
    /\ last' = [op |-> "calc_attributes",
                before |-> cached_modifier_collector]
    /\ UNCHANGED <<statuses, first_free_index, time, attacks, net_adds,
                   sideVars>>

CalcRenderColor ==
    /\ last' = [op |-> "calc_render_color",
                ret |-> calc_render_color(statuses, first_free_index)]
    /\ UNCHANGED <<statuses, first_free_index, time, attacks, net_adds,
                 cached_modifier_collector, sideVars>>

Render ==
    /\ last' = [op |-> "render", rendered |-> render(statuses)]
    /\ UNCHANGED <<statuses, first_free_index, time, attacks, net_adds,
                 cached_modifier_collector, sideVars>>

\* the state of the one Statuses and of the characters
statusesVars == <<statuses, first_free_index, time, net_adds,
                  cached_modifier_collector, char_statuses>>

FromMainStatus(m) ==
    LET r == from_main_status(m, heap)
    IN  /\ payloads' = Append(payloads, r.payload)
        /\ last' = [op |-> "from_main_status"]
        /\ UNCHANGED <<heap, holder, attacks, threads, statusesVars>>

FromSecondary(status) ==
    LET r == from_secondary(status, heap)
    IN  /\ payloads' = Append(payloads, r.payload)
        /\ heap' = r.heap
        /\ holder' = Append(holder, 0)
        /\ last' = [op |-> "from_secondary"]
        /\ UNCHANGED <<attacks, threads, statusesVars>>

\* payloads[p].clone()
Clone(p) ==
    LET r == clone(payloads[p], heap)
    IN  /\ payloads' = Append(payloads, r.payload)
        /\ heap' = r.heap
        /\ holder' = [h \in 1..Len(r.heap) |->
                          IF h <= Len(holder) THEN holder[h] ELSE 0]
        /\ last' = [op |-> "clone", of |-> p]
        /\ UNCHANGED <<attacks, threads, statusesVars>>

\* arc.lock().unwrap().update(..) through the handle of payloads[p]
PayloadUpdate(p, now) ==
    /\ payloads[p].kind = "SecondaryStatus"
    /\ LET h == payloads[p].arc
           r == Status_update(heap[h], SelfChar, now, <<>>)
       IN  /\ heap' = [heap EXCEPT ![h] = r.status]
           /\ attacks' = r.attacks
    /\ last' = [op |-> "payload_update", payload |-> p, now |-> now]
    /\ UNCHANGED <<holder, payloads, threads, statusesVars>>

\* A thread t runs update or render over its own Statuses, whose occupied
\* slots hold the handles threads[t].slots; slot i is the one it is at.
\* The lock() of the statement that calls the effect of slot i.
Lock(t) ==
    /\ threads[t].pc = "scan"
    /\ threads[t].i <= Len(threads[t].slots)
    /\ LET h == threads[t].slots[threads[t].i]
       IN  /\ can_lock(holder, h)
           /\ holder' = lock(holder, h, t)
    /\ threads' = [threads EXCEPT ![t].pc = "locked"]
    /\ last' = [op |-> "lock", thread |-> t]
    /\ UNCHANGED <<heap, payloads, attacks, statusesVars>>

\* The body of the effect's update or render reads the effect: what it will
\* write and return is decided from the fields read here.
Call(t) ==
    /\ threads[t].pc = "locked"
    /\ LET h == threads[t].slots[threads[t].i]
           r == IF threads[t].op = "update"
                THEN Status_update(heap[h], t, threads[t].now, <<>>)
                ELSE [status |-> heap[h], result |-> KeepIt, attacks |-> <<>>]
       IN  threads' = [threads EXCEPT ![t].pc = "called",
                                      ![t].read = heap[h],
                                      ![t].r = r]
    /\ last' = [op |-> "call", thread |-> t]
    /\ UNCHANGED <<heap, holder, payloads, attacks, statusesVars>>

\* The body writes the effect and pushes its attacks, the call returns, the
\* guard is dropped and the slot is emptied on RemoveIt.
Return(t) ==
    /\ threads[t].pc = "called"
    /\ LET h == threads[t].slots[threads[t].i]
           r == threads[t].r
       IN  /\ heap' = [heap EXCEPT ![h] = r.status]
           /\ attacks' = attacks \o r.attacks
           /\ holder' = drop_guard(holder, h)
           /\ threads' = [threads EXCEPT
                             ![t].pc = "scan",
                             ![t].i = @ + 1,
                             ![t].changed = @ \/ r.result = RemoveIt,
                             ![t].slots[threads[t].i] =
                                 IF r.result = RemoveIt THEN 0 ELSE @]
    /\ last' = [op |-> "return", thread |-> t]
    /\ UNCHANGED <<payloads, statusesVars>>

\* the loop is over
Finish(t) ==
    /\ threads[t].pc = "scan"
    /\ threads[t].i > Len(threads[t].slots)
    /\ threads' = [threads EXCEPT ![t].pc = "done"]
    /\ last' = [op |-> "finish", thread |-> t]
    /\ UNCHANGED <<heap, holder, payloads, attacks, statusesVars>>

\* the dispatch of an ApplyStatusInAreaComponent whose shape the collision
\* test reports the characters of `colliding` inside
ApplyStatusInArea(colliding, except, status) ==
    /\ char_statuses' =
           apply_status_in_area(char_statuses, colliding, except, status)
    /\ last' = [op |-> "apply_status_in_area", colliding |-> colliding,
                except |-> except, status |-> status]
    /\ UNCHANGED <<statuses, first_free_index, time, attacks, net_adds,
                   cached_modifier_collector, heap, holder, payloads,
                   threads>>

\* ---------------------------------------------------------- specifications

\* effects offered to add: a buff or debuff started at 0 that expires at the
\* first or at the latest update time
Effects == {SecondaryStatus(t, 0, u) : t \in StatusType, u \in {1, MaxTime}}

\* a buff that outlasts every update of the model
Filler == SecondaryStatus("Supportive", 0, MaxTime + 1)

\* Every operation of the container over effects of every kind; add is
\* offered while fewer than MaxSecondary secondary slots are in use, and
\* poison is cast by one entity at time 0.
Next ==
    \/ \E status \in Effects :
            /\ first_free_index < MAINSTATUSES_COUNT + MaxSecondary
            /\ Add(status)
    \/ AddPoison(1, 0, MaxTime + 1)
    \/ SwitchMounted
    \/ \E status_type \in StatusType : Remove(status_type)
    \/ \E status \in {Mounted, Stun, Poison} : RemoveMainStatus(status)
    \/ RemoveAll
    \/ \E now \in time..MaxTime : Update(now)
    \/ IsMounted

Spec == Init /\ [][Next]_vars

\* The same operations with the queries over the stored effects.
NextQuery ==
    \/ Next
    \/ \E now \in Times : CalcLargestRemaining(now)
    \/ CalcRenderColor
    \/ Render

SpecQuery == Init /\ [][NextQuery]_vars

\* buffs that expire at the first or at the latest update time
Buffs == {SecondaryStatus("Supportive", 0, u) : u \in {1, MaxTime}}

\* One payload, built from a main status or around a poison, its clones and
\* the clones of its clones, and updates of the effect behind any of them.
NextPayload ==
    \/ \E m \in {Mounted, Stun, Poison} :
            /\ payloads = <<>>
            /\ FromMainStatus(m)
    \/ \E caster \in Casters :
            /\ payloads = <<>>
            /\ FromSecondary(PoisonStatus(caster, 0, MaxTime + 1, 1))
    \/ \E p \in 1..Len(payloads) :
            /\ Len(payloads) <= MaxShared
            /\ Clone(p)
    \/ \E p \in 1..Len(payloads), now \in Times : PayloadUpdate(p, now)

SpecPayload == Init /\ [][NextPayload]_vars

\* the handles 1..MaxShared in ascending and in descending order
Ascending == [k \in 1..MaxShared |-> k]
Descending == [k \in 1..MaxShared |-> MaxShared + 1 - k]

\* Two threads, each running update or render at the same time `now` over a
\* Statuses of its own; the containers share MaxShared poisons, which a
\* container holds all, in either slot order, or one of.
InitLocks ==
    /\ statuses = new.statuses
    /\ first_free_index = new.first_free_index
    /\ time = 0
    /\ attacks = <<>>
    /\ last = [op |-> "new"]
    /\ net_adds = 0
    /\ cached_modifier_collector = CharAttributeModifierCollector_new
    /\ heap = [h \in 1..MaxShared |-> PoisonStatus(h, 0, MaxTime + 1, 1)]
    /\ holder = [h \in 1..MaxShared |-> 0]
    /\ payloads = <<>>
    /\ \E now \in {1, MaxTime} :
           threads \in [Threads ->
                          {[pc |-> "scan", op |-> op, slots |-> slots,
                            i |-> 1, now |-> now, changed |-> FALSE,
                            read |-> None, r |-> None] :
                               op \in {"update", "render"},
                               slots \in {Ascending, Descending}
                                          \cup {<<h>> : h \in 1..MaxShared}}]
    /\ char_statuses = [c \in Chars |-> new]

NextLocks ==
    \/ \E t \in Threads : Lock(t)
    \/ \E t \in Threads : Call(t)
    \/ \E t \in Threads : Return(t)
    \/ \E t \in Threads : Finish(t)

SpecLocks == InitLocks /\ [][NextLocks]_vars

\* the entity id that stands for `except: None`
NoEntity == 0

\* Area applications of the Filler over the characters, each with a Statuses
\* of its own, for every outcome of the collision test and every exclusion.
NextArea ==
    \E colliding \in SUBSET Chars, except \in Chars \cup {NoEntity} :
        /\ \A c \in Chars :
               char_statuses[c].first_free_index
                   < MAINSTATUSES_COUNT + MaxSecondary
        /\ ApplyStatusInArea(colliding, except, Filler)

SpecArea == Init /\ [][NextArea]_vars

\* The operations that change which effects are active, and calc_attributes.
NextAttributes ==
    \/ \E status \in Buffs :
            /\ first_free_index < MAINSTATUSES_COUNT + MaxSecondary
            /\ Add(status)
    \/ AddPoison(1, 0, MaxTime + 1)
    \/ SwitchMounted
    \/ \E status_type \in StatusType : Remove(status_type)
    \/ \E now \in {time, MaxTime} : Update(now)
    \/ CalcAttributes

SpecAttributes == Init /\ [][NextAttributes]_vars

\* The reserved Poison slot under every caster, start and expiry.
NextPoison ==
    \/ \E caster \in Casters, started \in Times :
            \E until \in (started + 1)..(MaxTime + 1) :
                AddPoison(caster, started, until)
    \/ RemoveMainStatus(Poison)
    \/ \E now \in time..MaxTime : Update(now)

SpecPoison == Init /\ [][NextPoison]_vars

\* a debuff that expires at the latest update time
Timed == SecondaryStatus("Harmful", 0, MaxTime)

\* The container filled up to its last slot: add stores the Filler, and the
\* first secondary slot may take the Timed debuff instead; updates run at the
\* current or at the latest time.
NextCapacity ==
    \/ \E status \in (IF first_free_index = MAINSTATUSES_COUNT
                      THEN {Filler, Timed} ELSE {Filler}) :
            Add(status)
    \/ AddPoison(1, 0, MaxTime + 1)
    \/ SwitchMounted
    \/ \E status_type \in StatusType : Remove(status_type)
    \/ \E status \in {Mounted, Stun, Poison} : RemoveMainStatus(status)
    \/ RemoveAll
    \/ \E now \in {time, MaxTime} : Update(now)

SpecCapacity == Init /\ [][NextCapacity]_vars

\* Sequences of add and remove_all that stay within capacity, counted: the
\* first MaxSecondary secondary slots take effects of any kind, the later
\* ones the Filler.
SeqAdd(status) ==
    /\ first_free_index < STATUS_ARRAY_SIZE
    /\ CallAdd(status)
    /\ net_adds' = net_adds + 1

SeqRemoveAll ==
    /\ CallRemoveAll
    /\ net_adds' = 0

NextSequence ==
    \/ \E status \in (IF first_free_index < MAINSTATUSES_COUNT + MaxSecondary
                      THEN Effects ELSE {Filler}) :
            SeqAdd(status)
    \/ SeqRemoveAll

SpecSequence == Init /\ [][NextSequence]_vars

\* ------------------------------------------------------------------ claims

\* slots of the secondary region that hold an effect
OccupiedSecondary(sts) ==
    {i \in Slots : i >= MAINSTATUSES_COUNT /\ is_some(sts[i])}

\* C1: add_poison leaves one poison in the reserved Poison slot whose expiry
\* is the maximum of the expiry stored before the call and the `until` of
\* the call (so the maximum of all `until` values since the slot was last
\* empty), and changes neither the high-water mark nor any other slot.
C1_PoisonExpiryIsMaxOfUntils ==
    [][last'.op = "add_poison" =>
         /\ statuses'[Poison].kind = "Poison"
         /\ statuses'[Poison].until =
                IF is_some(statuses[Poison])
                THEN max(statuses[Poison].until, last'.until)
                ELSE last'.until
         /\ first_free_index' = first_free_index
         /\ \A i \in Slots \ {Poison} : statuses'[i] = statuses[i]]_vars

\* C2: the high-water mark lies between the main-region size and the slot
\* limit, every slot at or above the mark is empty, and each main slot is
\* empty or holds an effect of its reserved kind.
C2_SlotInvariant ==
    /\ first_free_index >= MAINSTATUSES_COUNT
    /\ first_free_index <= STATUS_ARRAY_SIZE
    /\ \A i \in Slots : i >= first_free_index => statuses[i] = None
    /\ statuses[Mounted].kind \in {"None", "Mounted"}
    /\ statuses[Stun].kind \in {"None", "Stun"}
    /\ statuses[Poison].kind \in {"None", "Poison"}

\* the array is full, with both built-in main effects in their slots, after
\* an update removed the expired effect of the first secondary slot
C2_Witness ==
    /\ first_free_index = STATUS_ARRAY_SIZE
    /\ is_some(statuses[Mounted])
    /\ is_some(statuses[Poison])
    /\ last.op = "update"
    /\ last.removed = {MAINSTATUSES_COUNT}

\* C3: add at the slot limit returns normally and changes no slot and not
\* the mark; add below the limit stores the effect at the mark and advances
\* the mark by one.
C3_AddAtCapacityRejected ==
    [][last'.op = "add" =>
         /\ last'.ret = "unit"
         /\ IF first_free_index = STATUS_ARRAY_SIZE
            THEN /\ statuses' = statuses
                 /\ first_free_index' = first_free_index
            ELSE /\ first_free_index < STATUS_ARRAY_SIZE
                 /\ statuses' =
                        [statuses EXCEPT ![first_free_index] = last'.status]
                 /\ first_free_index' = first_free_index + 1]_vars

\* an add was rejected at the slot limit
C3_Witness ==
    /\ last.op = "add"
    /\ last.logged
    /\ first_free_index = STATUS_ARRAY_SIZE
    /\ Cardinality(OccupiedSecondary(statuses)) =
           STATUS_ARRAY_SIZE - MAINSTATUSES_COUNT

\* C4: over sequences of add and remove_all within capacity the number of
\* occupied secondary slots is the number of adds since the latest
\* remove_all, and the mark never exceeds the slot limit.
C4_OccupiedIsNetAdds ==
    /\ Cardinality(OccupiedSecondary(statuses)) = net_adds
    /\ first_free_index <= STATUS_ARRAY_SIZE

\* the sequence filled every secondary slot
C4_Witness ==
    /\ net_adds = STATUS_ARRAY_SIZE - MAINSTATUSES_COUNT
    /\ last.op = "add"

\* C5: remove(classification) empties exactly the secondary slots below the
\* mark whose effect has the classification; main slots, the other
\* secondary slots and the mark stay as they were.
C5_RemoveSparesMainSlots ==
    [][last'.op = "remove" =>
         /\ first_free_index' = first_free_index
         /\ \A i \in Slots :
                statuses'[i] =
                    IF /\ i >= MAINSTATUSES_COUNT
                       /\ i < first_free_index
                       /\ is_some(statuses[i])
                       /\ typ(statuses[i]) = last'.status_type
                    THEN None
                    ELSE statuses[i]]_vars

\* active effects below the mark that report a completion pair at `now`
Reporting(sts, ffi, now) ==
    {i \in take(ffi) :
        is_some(sts[i]) /\ get_status_completion_percent(sts[i], now).some}

\* the reporting slot with the latest expiry, the lowest such slot on a tie
LatestExpiring(sts, ffi, now) ==
    LET ends(i) == get_status_completion_percent(sts[i], now).ends_at
    IN  CHOOSE i \in Reporting(sts, ffi, now) :
            \A j \in Reporting(sts, ffi, now) :
                \/ ends(i) > ends(j)
                \/ ends(i) = ends(j) /\ i <= j

\* C6: calc_largest_remaining_status_time_percent returns the fraction of
\* the reporting effect with the latest expiry (the lowest slot on a tie),
\* and none when no active effect reports a completion pair.
C6_LargestIsLatestExpiry ==
    last.op = "calc_largest_remaining_status_time_percent" =>
        IF Reporting(statuses, first_free_index, last.now) = {}
        THEN ~last.ret.some
        ELSE /\ last.ret.some
             /\ SamePercent(
                    last.ret.percent,
                    get_status_completion_percent(
                        statuses[LatestExpiring(statuses, first_free_index,
                                                last.now)],
                        last.now).percent)

\* C7: an update at `now` of a stored poison emits exactly one damage event
\* from the caster to the character and keeps the poison when
\* next_damage_at <= now < until, emits none when now < next_damage_at, and
\* empties the slot when until <= now.
C7_PoisonTick ==
    [][(last'.op = "update" /\ statuses[Poison].kind = "Poison") =>
         LET p == statuses[Poison]
             now == last'.now
         IN  /\ (p.next_damage_at <= now /\ now < p.until) =>
                    /\ attacks' = <<AttackComponent(p.poison_caster_entity_id,
                                                    SelfChar)>>
                    /\ statuses'[Poison].kind = "Poison"
             /\ now < p.next_damage_at => attacks' = <<>>
             /\ p.until <= now => statuses'[Poison] = None]_vars

\* an update emitted the damage event of a kept poison two seconds or more
\* after the poison's first damage time
C7_Witness ==
    /\ last.op = "update"
    /\ statuses[Poison].kind = "Poison"
    /\ attacks = <<AttackComponent(statuses[Poison].poison_caster_entity_id,
                                   SelfChar)>>
    /\ last.now >= statuses[Poison].started + 3
    /\ last.now < statuses[Poison].until

\* C8: update calls the per-effect update once on every occupied slot below
\* the mark, in slot order, empties exactly the slots whose effect returned
\* RemoveIt, lowers the mark to the main-region size or to one past an
\* occupied slot, never below the main-region size, leaves no occupied slot
\* at or above the mark, and returns true iff a slot was emptied.
C8_UpdateCompacts ==
    [][last'.op = "update" =>
         LET occupied == {i \in take(first_free_index) : is_some(statuses[i])}
             visited == last'.visited
         IN  /\ {visited[k] : k \in 1..Len(visited)} = occupied
             /\ Len(visited) = Cardinality(occupied)
             /\ \A k \in 1..(Len(visited) - 1) : visited[k] < visited[k + 1]
             /\ \A i \in Slots :
                    is_some(statuses'[i]) <=>
                        (is_some(statuses[i]) /\ i \notin last'.removed)
             /\ last'.removed =
                    {i \in occupied :
                        Status_update(statuses[i], SelfChar, last'.now,
                                      <<>>).result = RemoveIt}
             /\ first_free_index' >= MAINSTATUSES_COUNT
             /\ first_free_index' <= first_free_index
             /\ \/ first_free_index' = MAINSTATUSES_COUNT
                \/ is_some(statuses'[first_free_index' - 1])
             /\ \A i \in Slots :
                    i >= first_free_index' => ~is_some(statuses'[i])
             /\ last'.ret <=>
                    (\E i \in Slots :
                        is_some(statuses[i]) /\ ~is_some(statuses'[i]))]_vars

\* an update emptied the last secondary slot, kept the one below it and
\* lowered the mark to one past the kept slot
C8_Witness ==
    /\ last.op = "update"
    /\ last.ret
    /\ last.removed = {MAINSTATUSES_COUNT + 1}
    /\ first_free_index = MAINSTATUSES_COUNT + 1
    /\ is_some(statuses[MAINSTATUSES_COUNT])

\* C9: switch_mounted empties the Mounted slot when it is occupied and fills
\* it when it is empty (so two calls in a row restore it), changes no other
\* slot and not the mark; is_mounted tells whether the slot is occupied.
C9_SwitchMountedToggles ==
    [][/\ last'.op = "switch_mounted" =>
            /\ is_some(statuses'[Mounted]) <=> ~is_some(statuses[Mounted])
            /\ is_some(statuses'[Mounted]) =>
                   statuses'[Mounted].kind = "Mounted"
            /\ \A i \in Slots \ {Mounted} : statuses'[i] = statuses[i]
            /\ first_free_index' = first_free_index
       /\ last'.op = "is_mounted" =>
            (last'.ret <=> statuses[Mounted].kind = "Mounted")
       /\ (last.op = "switch_mounted" /\ last'.op = "switch_mounted"
           /\ is_some(statuses[Mounted])) =>
            statuses'[Mounted] = None]_vars

\* switch_mounted has emptied the Mounted slot beside a stored poison and a
\* stored secondary effect
C9_Witness ==
    /\ last.op = "switch_mounted"
    /\ statuses[Mounted] = None
    /\ is_some(statuses[Poison])
    /\ first_free_index > MAINSTATUSES_COUNT

\* C10: after remove_all every slot is empty and the mark is the
\* main-region size.
C10_RemoveAllClears ==
    last.op = "remove_all" =>
        /\ \A i \in Slots : statuses[i] = None
        /\ first_free_index = MAINSTATUSES_COUNT

\* remove_all ran on a container that held a mount, a poison and effects up
\* to the last slot
C10_Witness ==
    /\ last.op = "remove_all"
    /\ Mounted \in last.held
    /\ Poison \in last.held
    /\ (STATUS_ARRAY_SIZE - 1) \in last.held

\* 2 to the power n
RECURSIVE pow2(_)
pow2(n) == IF n = 0 THEN 1 ELSE 2 * pow2(n - 1)

\* active effects below the mark whose tint halves channel c
Halving(sts, ffi, c) ==
    {i \in take(ffi) : is_some(sts[i]) /\ get_render_color(sts[i])[c] = Half}

\* C11: calc_render_color returns opaque white when no effect is active and
\* otherwise, in each of the four channels, the product of the tints of all
\* active effects, whatever their slot order: every tint being 1 or 1/2, the
\* channel is 1 over 2 to the number of active effects that halve it.
C11_RenderColorIsProduct ==
    last.op = "calc_render_color" =>
        /\ \A c \in 1..4 :
               last.ret[c] =
                   <<1, pow2(Cardinality(Halving(statuses, first_free_index,
                                                 c)))>>
        /\ (\A i \in Slots : ~is_some(statuses[i])) =>
               last.ret = <<One, One, One, One>>

\* the tints <<1, 1/2, 1, 1>> of a buff and <<1/2, 1, 1/2, 1>> of a debuff in
\* the slot after it gave <<1/2, 1/2, 1/2, 1>>
C11_Witness ==
    /\ last.op = "calc_render_color"
    /\ last.ret = <<Half, Half, Half, One>>
    /\ statuses[MAINSTATUSES_COUNT].kind = "Secondary"
    /\ statuses[MAINSTATUSES_COUNT].typ = "Supportive"
    /\ statuses[MAINSTATUSES_COUNT + 1].kind = "Secondary"
    /\ statuses[MAINSTATUSES_COUNT + 1].typ = "Harmful"
    /\ ~is_some(statuses[Poison])

\* C12: render calls the render of exactly the lowest occupied slot of each
\* runtime type, once, in slot order; later slots of a type already
\* rendered are skipped.
C12_RenderOncePerType ==
    last.op = "render" =>
        LET occupied == {i \in Slots : is_some(statuses[i])}
            first == {i \in occupied :
                         \A j \in occupied :
                             type_id(statuses[j]) = type_id(statuses[i])
                                 => i <= j}
            r == last.rendered
        IN  /\ {r[k] : k \in 1..Len(r)} = first
            /\ Len(r) = Cardinality(first)
            /\ \A k \in 1..(Len(r) - 1) : r[k] < r[k + 1]

\* render skipped the second of two stored buffs and rendered the poison and
\* the first buff
C12_Witness ==
    /\ last.op = "render"
    /\ last.rendered = <<Poison, MAINSTATUSES_COUNT>>
    /\ is_some(statuses[MAINSTATUSES_COUNT + 1])

\* C16: add_poison leaves in the Poison slot a new instance that has the
\* caster and the start time of the call and the next damage time
\* started + 1, whatever the replaced instance had; its expiry is the call's
\* merged with that of the replaced instance (the later of the two), or the
\* call's when the slot was empty; no other slot changes.
C16_AddPoisonReplaces ==
    [][last'.op = "add_poison" =>
         LET old == statuses[Poison]
             merged == IF is_some(old) /\ old.until > last'.until
                       THEN old.until
                       ELSE last'.until
         IN  /\ statuses'[Poison] =
                    PoisonStatus(last'.caster, last'.started, merged,
                                 last'.started + 1)
             /\ \A i \in Slots \ {Poison} : statuses'[i] = statuses[i]]_vars

\* C19: over the updates of a stored poison: the update that removes the
\* poison emits no damage event; an update emits an event only at or after
\* the poison's next damage time and sets the next damage time to now + 1; an
\* update that emits nothing leaves a kept poison as it was; and two
\* consecutive updates that both emit are one second or more apart.
C19_PoisonEventsSpaced ==
    [][(last'.op = "update" /\ statuses[Poison].kind = "Poison") =>
         LET p == statuses[Poison]
             q == statuses'[Poison]
             now == last'.now
         IN  /\ ~is_some(q) => attacks' = <<>>
             /\ attacks' # <<>> =>
                    /\ q.kind = "Poison"
                    /\ q.next_damage_at = now + 1
                    /\ now >= p.next_damage_at
             /\ (attacks' = <<>> /\ is_some(q)) => q = p
             /\ (last.op = "update" /\ attacks # <<>> /\ attacks' # <<>>) =>
                    now >= time + 1]_vars

\* an update removed the poison, whose next damage time had come, and
\* emitted nothing
C19_Witness ==
    /\ last.op = "update"
    /\ Poison \in last.removed
    /\ last.now >= 2
    /\ attacks = <<>>

\* C20: an effect in a secondary slot stays in that slot, unchanged, until the
\* slot is emptied; a secondary slot is filled only by add, at the mark, with
\* the added effect, so that an emptied slot below the mark is not filled
\* again; and add at mark 32 changes no slot, even when secondary slots below
\* the mark are empty.
C20_SlotsAreStable ==
    [][/\ \A i \in Slots :
              i >= MAINSTATUSES_COUNT =>
                  /\ (is_some(statuses[i]) /\ is_some(statuses'[i])) =>
                         statuses'[i] = statuses[i]
                  /\ (~is_some(statuses[i]) /\ is_some(statuses'[i])) =>
                         /\ last'.op = "add"
                         /\ i = first_free_index
                         /\ statuses'[i] = last'.status
       /\ (last'.op = "add" /\ first_free_index = STATUS_ARRAY_SIZE) =>
              /\ statuses' = statuses
              /\ last'.logged]_vars

\* add was rejected at mark 32 while a secondary slot below the mark was empty
\* and another one occupied
C20_Witness ==
    /\ last.op = "add"
    /\ last.logged
    /\ first_free_index = STATUS_ARRAY_SIZE
    /\ \E i, j \in Slots :
           /\ i >= MAINSTATUSES_COUNT
           /\ j >= MAINSTATUSES_COUNT
           /\ ~is_some(statuses[i])
           /\ is_some(statuses[j])

\* slots below the mark whose effect pushes a modifier
Contributors(sts, ffi) ==
    {i \in take(ffi) : is_some(sts[i]) /\ calc_attribs(sts[i], <<>>) # <<>>}

\* C17: calc_attributes leaves in the collector exactly one entry per active
\* effect that pushes a modifier, in ascending slot order (the main slots
\* first), whatever the collector held before; a second call with no
\* operation in between leaves the same contents.
C17_AttributesAreRebuilt ==
    [][last'.op = "calc_attributes" =>
         LET c == Contributors(statuses, first_free_index)
             rank(i) == Cardinality({j \in c : j <= i})
         IN  /\ Len(cached_modifier_collector') = Cardinality(c)
             /\ \A i \in c :
                    <<cached_modifier_collector'[rank(i)]>> =
                        calc_attribs(statuses[i], <<>>)
             /\ last.op = "calc_attributes" =>
                    cached_modifier_collector' = cached_modifier_collector]_vars

\* the collector held the modifiers of two buffs, the first of which was
\* removed since, and holds after the call the modifier of the mount followed
\* by that of a buff added since
C17_Witness ==
    /\ last.op = "calc_attributes"
    /\ Len(last.before) = 2
    /\ last.before[1].until = 1
    /\ ~is_some(statuses[Poison])
    /\ Len(cached_modifier_collector) = 2
    /\ cached_modifier_collector[1] =
           [attr |-> "walking_speed",
            modifier |-> IncreaseByPercentage(MountedSpeed),
            started |-> 0, until |-> 0]
    /\ cached_modifier_collector[2].until = MaxTime

\* C13: the clone of a payload that holds a secondary effect holds a new
\* handle, shared with no other payload, to a copy of the effect as it was,
\* and leaves every effect as it was; an update of the effect through one
\* payload changes the effect behind no other payload.
C13_CloneIsIndependent ==
    [][/\ last'.op = "clone" =>
              LET src == payloads[last'.of]
                  dst == payloads'[Len(payloads')]
              IN  /\ Len(payloads') = Len(payloads) + 1
                  /\ \A q \in 1..Len(payloads) : payloads'[q] = payloads[q]
                  /\ dst.kind = src.kind
                  /\ src.kind = "SecondaryStatus" =>
                         /\ \A q \in 1..Len(payloads) :
                                payloads[q].kind = "SecondaryStatus" =>
                                    dst.arc # payloads[q].arc
                         /\ heap'[dst.arc] = heap[src.arc]
                         /\ \A h \in 1..Len(heap) : heap'[h] = heap[h]
       /\ last'.op = "payload_update" =>
              \A q \in 1..Len(payloads) :
                  (q # last'.payload /\ payloads[q].kind = "SecondaryStatus")
                      => heap'[payloads[q].arc] = heap[payloads[q].arc]]_vars

\* the poison behind a clone was updated and its next damage time differs now
\* from that of the poison behind the payload it was cloned from
C13_Witness ==
    /\ last.op = "payload_update"
    /\ last.payload = 2
    /\ payloads[1].kind = "SecondaryStatus"
    /\ heap[payloads[2].arc].next_damage_at
           # heap[payloads[1].arc].next_damage_at

\* the handles whose guard thread t holds
Held(t) == {h \in 1..Len(holder) : holder[h] = t}

AllDone == \A t \in Threads : threads[t].pc = "done"

\* C14: the calls that threads make on one effect through its handle are
\* atomic: a thread is inside a call on the effect only while it holds the
\* effect's lock, no two threads are inside calls on the same effect, and the
\* effect a call writes is still as the call read it; so the updates by two
\* threads at the same time `now` of a poison whose next damage time has come
\* emit one damage event in total.
C14_CallsAreAtomic ==
    /\ \A t \in Threads :
           threads[t].pc \in {"locked", "called"} =>
               /\ holder[threads[t].slots[threads[t].i]] = t
               /\ threads[t].pc = "called" =>
                      heap[threads[t].slots[threads[t].i]] = threads[t].read
    /\ \A h \in 1..Len(heap) :
           /\ Cardinality({k \in 1..Len(attacks) :
                              attacks[k].src_entity
                                  = heap[h].poison_caster_entity_id}) <= 1
           /\ (AllDone /\ \E t \in Threads : threads[t].op = "update"
                                             /\ h \in {threads[t].slots[k] :
                                                 k \in 1..Len(threads[t].slots)})
                  => \E k \in 1..Len(attacks) :
                         attacks[k].src_entity
                             = heap[h].poison_caster_entity_id

\* both threads have updated the one poison of their containers and one
\* damage event was emitted
C14_Witness ==
    /\ AllDone
    /\ \A t \in Threads : /\ threads[t].op = "update"
                          /\ threads[t].slots = <<1>>
    /\ Len(attacks) = 1

\* C18: a thread holds the lock of one effect at most at any time, some
\* thread can take a step as long as a thread has not finished (no deadlock),
\* and a scan is at slot 32 at most.
C18_OneLockAtATime ==
    /\ \A t \in Threads : Cardinality(Held(t)) <= 1
    /\ AllDone \/ ENABLED NextLocks
    /\ \A t \in Threads :
           /\ threads[t].i <= Len(threads[t].slots) + 1
           /\ Len(threads[t].slots) <= STATUS_ARRAY_SIZE

\* two threads that scan the same effects in opposite slot orders hold one
\* lock each, the lock of the effect the other will need next
C18_Witness ==
    /\ threads[1].slots = Ascending
    /\ threads[2].slots = Descending
    /\ threads[1].i = 1
    /\ threads[2].i = 1
    /\ Held(1) = {threads[1].slots[1]}
    /\ Held(2) = {threads[2].slots[1]}

\* C15: the dispatch of an area application adds the effect at the mark of
\* exactly the characters inside the shape other than the excluded one; when
\* no character but the excluded one is inside, no Statuses changes.
C15_AreaSkipsExcluded ==
    [][last'.op = "apply_status_in_area" =>
         LET targets == last'.colliding \ {last'.except}
         IN  /\ \A c \in Chars \ targets :
                    char_statuses'[c] = char_statuses[c]
             /\ \A c \in targets :
                    /\ char_statuses'[c].first_free_index
                           = char_statuses[c].first_free_index + 1
                    /\ char_statuses'[c].statuses
                           = [char_statuses[c].statuses EXCEPT
                                 ![char_statuses[c].first_free_index]
                                     = last'.status]
             /\ last'.colliding \subseteq {last'.except} =>
                    char_statuses' = char_statuses]_vars

\* an area application whose shape held the excluded character only has left
\* every Statuses empty
C15_Witness ==
    /\ last.op = "apply_status_in_area"
    /\ last.colliding = {last.except}
    /\ \A c \in Chars : char_statuses[c] = new

====
